---- MODULE Spec2Model ----
(***************************************************************************)
(* The billy scraper/record framework: records (Bill, Vote, Committee),   *)
(* their validate methods, the Scraper base helpers (validate_object,     *)
(* validate_term) and the save_bill / save_vote / save_committee          *)
(* operations writing one JSON file per record into the output directory. *)
(*                                                                         *)
(* Python dicts are functions from key strings to values: a missing key   *)
(* is a string outside DOMAIN, and reading it raises KeyError.  Text that *)
(* ends up in a file name is a sequence of one-character strings, so the  *)
(* % formatting, str.replace and unicode.encode of the code are computed  *)
(* character by character.                                                 *)
(***************************************************************************)
EXTENDS Integers, Sequences, FiniteSets, TLC

-----------------------------------------------------------------------------
(* Bounds of the model *)

\* the most names yes()/no()/other() append to one list of a vote
MaxVoters == 2
\* yes_count/no_count/other_count are drawn from 0..MaxCount
MaxCount == 2
\* the most votes add_vote embeds in one bill
MaxVotes == 1
\* the most save_vote calls of one VoteScraper (itertools.count is unbounded)
MaxSequence == 2
\* the most terms in a jurisdiction's metadata
MaxTerms == 2
\* the scraper instances saving at the same time
NumInstances == 2
\* the most add_source calls on one record
MaxSources == 2
\* the most entries add_sponsor, add_document, add_version, add_action and
\* add_title together add to one bill, and add_member to one committee
MaxEntries == 1

-----------------------------------------------------------------------------
(* Text *)

\* code points outside ASCII, as scraped pages deliver them (e-acute, u-umlaut)
NonAscii == {"U+00E9", "U+00FC"}

S2009 == <<"2", "0", "0", "9">>
S2010 == <<"2", "0", "1", "0">>
S2011 == <<"2", "0", "1", "1">>
S2013 == <<"2", "0", "1", "3">>
Upper == <<"u", "p", "p", "e", "r">>
Lower == <<"l", "o", "w", "e", "r">>
DotJson == <<".", "j", "s", "o", "n">>

\* '%s' % None
NoneText == <<"N", "o", "n", "e">>

\* python's None, as a value of a dict
None == <<"<None>">>

DigitChar == <<"0", "1", "2", "3", "4", "5", "6", "7", "8", "9">>

RECURSIVE IntText(_)
\* '%s' % n for an int n >= 0
IntText(n) ==
    IF n < 10 THEN <<DigitChar[n + 1]>>
    ELSE IntText(n \div 10) \o <<DigitChar[(n % 10) + 1]>>

\* '%s' % v for v a text or None
Text(v) == IF v = None THEN NoneText ELSE v

\* unicode.encode('ascii', 'replace'): every non-ASCII code point becomes '?'
EncodeAsciiReplace(s) ==
    [i \in 1..Len(s) |-> IF s[i] \in NonAscii THEN "?" ELSE s[i]]

\* str.replace(old, new) for one-character old and new
Replace(s, old, new) ==
    [i \in 1..Len(s) |-> IF s[i] = old THEN new ELSE s[i]]

\* all sequences over S of length at most n
SeqUpTo(S, n) == UNION {[1..k -> S] : k \in 0..n}

-----------------------------------------------------------------------------
(* Jurisdictions and their metadata *)

Jurisdictions == {"wy", "nm"}

TermPool ==
    { [name |-> "2009-2010", sessions |-> <<S2009, S2010>>],
      [name |-> "2011-2012", sessions |-> <<S2011>>] }

\* term names a caller may ask validate_term about
TermNames == {"2009-2010", "2011-2012", "2013-2014"}

\* session strings a plugin may put on a record
Sessions == {S2009, S2011, S2013}

Metadatas == {[terms |-> ts] : ts \in SeqUpTo(TermPool, MaxTerms)}

DefaultMetadata ==
    [terms |-> << [name |-> "2009-2010", sessions |-> <<S2009, S2010>>],
                  [name |-> "2011-2012", sessions |-> <<S2011>>] >>]

-----------------------------------------------------------------------------
(* Outcomes of a call: "ok" for a normal return, else the exception raised *)

SchemaError == "ValidationError"
BadSession == "ValueError: bad session"
BadYesCount == "ValueError: bad yes_vote count"
BadNoCount == "ValueError: bad no_vote count"
BadOtherCount == "ValueError: bad other_vote count"
KeyErrorSession == "KeyError: session"
KeyErrorState == "KeyError: state"

\* the exceptions `except ValueError` catches; the validator's
\* ValidationError is a ValueError
ValueErrors == {SchemaError, BadSession, BadYesCount, BadNoCount, BadOtherCount}

-----------------------------------------------------------------------------
(* State *)

VARIABLES
    metadata,   \* jurisdiction -> metadata (terms with their sessions)
    scraper,    \* the scraper instance: state, scraper_type, strict_validation, sequence
    bill,       \* the Bill the plugin is building, or NoRecord
    vote,       \* the Vote the plugin is building, or NoRecord
    committee,  \* the Committee the plugin is building, or NoRecord
    files,      \* the output directory: path -> document written there
    result,     \* the last call: what it was given, how it ended, what it wrote
                \* (only the operation's name for the calls that return None)
    registry,   \* _scraper_registry: state -> (scraper_type -> class)
    classes,    \* the scraper classes defined so far
    modules,    \* sys.modules: the plugin modules imported so far
    procs       \* the scraper instances saving concurrently: instance -> its progress

vars == <<metadata, scraper, bill, vote, committee, files, result,
          registry, classes, modules, procs>>

\* what the record-building, validating and saving calls of one scraper leave alone
others == <<registry, classes, modules, procs>>

NoRecord == [_type |-> "none"]
NoFile == [_type |-> "nofile"]
NoResult == [op |-> "none"]

Legislators == {"Smith"}

\* d[k] = v
DictSet(d, k, v) == (k :> v) @@ d

\* d.update(kwargs)
DictUpdate(d, kwargs) == kwargs @@ d

-----------------------------------------------------------------------------
(* Records *)

\* SourcedObject.__init__
SourcedObject_init(type, kwargs) ==
    DictUpdate([_type |-> type, sources |-> <<>>], kwargs)

\* the datetime a plugin passes as the date of a vote
VoteDate == [seconds |-> 1299000000, microsecond |-> 250000]

\* Vote.__init__; session, bill_id and state only arrive through kwargs
Vote_new(chamber, yes_count, no_count, other_count, kwargs) ==
    [chamber |-> chamber, date |-> VoteDate, motion |-> "Final passage",
     passed |-> TRUE, yes_count |-> yes_count, no_count |-> no_count,
     other_count |-> other_count, type |-> "other",
     yes_votes |-> <<>>, no_votes |-> <<>>, other_votes |-> <<>>]
        @@ SourcedObject_init("vote", kwargs)

\* a count check that only looks at the lists that have names
Vote_count_check_nonempty_only(v) ==
    IF v.yes_votes # <<>> /\ Len(v.yes_votes) # v.yes_count THEN BadYesCount
    ELSE IF v.no_votes # <<>> /\ Len(v.no_votes) # v.no_count THEN BadNoCount
    ELSE IF v.other_votes # <<>> /\ Len(v.other_votes) # v.other_count
         THEN BadOtherCount
    ELSE "ok"

\* the count check at the end of Vote.validate
Vote_count_check(v) ==
    IF v.yes_votes # <<>> \/ v.no_votes # <<>> \/ v.other_votes # <<>>
    THEN IF Len(v.yes_votes) # v.yes_count THEN BadYesCount
         ELSE IF Len(v.no_votes) # v.no_count THEN BadNoCount
         ELSE IF Len(v.other_votes) # v.other_count THEN BadOtherCount
         ELSE "ok"
    ELSE "ok"

\* billy.scrape.utils.get_sessions: every session of every term of the state
get_sessions(md, state) ==
    UNION { {t.sessions[i] : i \in 1..Len(t.sessions)} :
            t \in {md[state].terms[j] : j \in 1..Len(md[state].terms)} }

\* SourcedObject.validate; schema_ok is the validator's verdict on (self, schema)
SourcedObject_validate(has_schema, schema_ok) ==
    IF has_schema /\ ~schema_ok THEN SchemaError ELSE "ok"

\* a Vote.validate that checks the session in embedded mode too
Vote_validate_session_always(md, v, standalone, schema_ok) ==
    IF standalone /\ ~schema_ok THEN SchemaError
    ELSE IF "session" \notin DOMAIN v THEN KeyErrorSession
    ELSE IF "state" \notin DOMAIN v THEN KeyErrorState
    ELSE IF v.session \notin get_sessions(md, v.state) THEN BadSession
    ELSE Vote_count_check(v)

\* Vote.validate; Vote declares standalone_schema but no schema
Vote_validate(md, v, standalone, schema_ok) ==
    IF SourcedObject_validate(FALSE, schema_ok) # "ok" THEN SchemaError
    ELSE IF standalone /\ ~schema_ok THEN SchemaError
    ELSE IF standalone /\ "session" \notin DOMAIN v THEN KeyErrorSession
    ELSE IF standalone /\ "state" \notin DOMAIN v THEN KeyErrorState
    ELSE IF standalone /\ v.session \notin get_sessions(md, v.state) THEN BadSession
    ELSE Vote_count_check(v)


\* Bill.__init__ without a type keyword: type defaults to ['bill']
Bill_new(session, chamber, bill_id, kwargs) ==
    [session |-> session, chamber |-> chamber, bill_id |-> bill_id,
     title |-> "An act", sponsors |-> <<>>, votes |-> <<>>, versions |-> <<>>,
     actions |-> <<>>, documents |-> <<>>, alternate_titles |-> <<>>,
     type |-> <<"bill">>]
        @@ SourcedObject_init("bill", kwargs)

\* the first vote of the list that Vote.validate(standalone=False) rejects
RECURSIVE Bill_validate_votes(_, _, _, _)
Bill_validate_votes(md, votes, i, schema_ok) ==
    IF i > Len(votes) THEN "ok"
    ELSE IF Vote_validate(md, votes[i], FALSE, schema_ok) # "ok"
         THEN Vote_validate(md, votes[i], FALSE, schema_ok)
         ELSE Bill_validate_votes(md, votes, i + 1, schema_ok)

\* a Bill.validate without the session check
Bill_validate_no_session(md, b, schema_ok) ==
    IF SourcedObject_validate(TRUE, schema_ok) # "ok" THEN SchemaError
    ELSE IF "state" \notin DOMAIN b THEN KeyErrorState
    ELSE Bill_validate_votes(md, b.votes, 1, schema_ok)

\* a Bill.validate that does not look at the embedded votes
Bill_validate_skip_votes(md, b, schema_ok) ==
    IF SourcedObject_validate(TRUE, schema_ok) # "ok" THEN SchemaError
    ELSE IF "state" \notin DOMAIN b THEN KeyErrorState
    ELSE IF b.session \notin get_sessions(md, b.state) THEN BadSession
    ELSE "ok"

\* Bill.validate; Bill declares a schema
Bill_validate(md, b, schema_ok) ==
    IF SourcedObject_validate(TRUE, schema_ok) # "ok" THEN SchemaError
    ELSE IF "state" \notin DOMAIN b THEN KeyErrorState
    ELSE IF b.session \notin get_sessions(md, b.state) THEN BadSession
    ELSE Bill_validate_votes(md, b.votes, 1, schema_ok)

\* Committee.__init__; subcommittee is always stored, None when not given
Committee_new(chamber, name, subcommittee, kwargs) ==
    [chamber |-> chamber, committee |-> name, subcommittee |-> subcommittee,
     members |-> IF "members" \in DOMAIN kwargs THEN kwargs.members ELSE <<>>]
        @@ SourcedObject_init("committee", kwargs)

\* Committee inherits SourcedObject.validate and declares a schema
Committee_validate(c, schema_ok) == SourcedObject_validate(TRUE, schema_ok)

\* datetime.datetime.utcnow() at the time of the call
utcnow == [seconds |-> 1299500000, microsecond |-> 500000]

\* an add_source that puts the new entry first
SourcedObject_add_source_first(rec, url, kwargs) ==
    [rec EXCEPT !.sources =
        <<("url" :> url)
            @@ ("retrieved" :> IF "retrieved" \in DOMAIN kwargs
                               THEN kwargs.retrieved ELSE utcnow)
            @@ kwargs>> \o @]

\* SourcedObject.add_source(url, retrieved=None, **kwargs): kwargs holds the
\* keyword arguments of the call, retrieved among them when it is passed
SourcedObject_add_source(rec, url, kwargs) ==
    [rec EXCEPT !.sources =
        Append(@, ("url" :> url)
                    @@ ("retrieved" :> IF "retrieved" \in DOMAIN kwargs
                                       THEN kwargs.retrieved ELSE utcnow)
                    @@ kwargs)]

\* Bill.add_sponsor(type, name)
Bill_add_sponsor(b, type, name) ==
    [b EXCEPT !.sponsors = Append(@, [type |-> type, name |-> name])]

\* Bill.add_document(name, url)
Bill_add_document(b, name, url) ==
    [b EXCEPT !.documents = Append(@, [name |-> name, url |-> url])]

\* Bill.add_version(name, url)
Bill_add_version(b, name, url) ==
    [b EXCEPT !.versions = Append(@, [name |-> name, url |-> url])]

\* Bill.add_action(actor, action, date, type=None): no type becomes
\* ['other'], a string becomes the list of it
Bill_add_action(b, actor, action, date, kwargs) ==
    [b EXCEPT !.actions =
        Append(@, [actor |-> actor, action |-> action, date |-> date,
                   type |-> IF "type" \in DOMAIN kwargs
                            THEN <<kwargs.type>> ELSE <<"other">>])]

\* Bill.add_title(title)
Bill_add_title(b, title) ==
    [b EXCEPT !.alternate_titles = Append(@, title)]

\* Committee.add_member(legislator, role='member')
Committee_add_member(c, legislator, kwargs) ==
    [c EXCEPT !.members =
        Append(@, [name |-> legislator,
                   role |-> IF "role" \in DOMAIN kwargs
                            THEN kwargs.role ELSE "member"])]

-----------------------------------------------------------------------------
(* Scraper helpers *)

\* a validate_object that re-raises whatever the mode
validate_object_always_raise(scr, validation) == validation

\* a validate_object that swallows the error whatever the mode
validate_object_never_raise(scr, validation) ==
    IF validation \in ValueErrors THEN "ok" ELSE validation

\* Scraper.validate_object: what the call raises ("ok": returns normally),
\* given what obj.validate() raised
validate_object(scr, validation) ==
    IF validation \in ValueErrors
    THEN IF scr.strict_validation THEN validation ELSE "ok"
    ELSE validation

\* NoDataForPeriod.__init__
NoDataForPeriod(period) == [exc |-> "NoDataForPeriod", period |-> period]

IndexError == [exc |-> "IndexError"]

\* return True
ReturnsTrue == [exc |-> "none", value |-> TRUE]

\* a validate_session that only looks at the last term
validate_session_last_term(md, session) ==
    IF md.terms # <<>>
       /\ \E i \in 1..Len(md.terms[Len(md.terms)].sessions) :
              session = md.terms[Len(md.terms)].sessions[i]
    THEN ReturnsTrue ELSE NoDataForPeriod(session)

\* Scraper.validate_session on the scraper's own metadata
validate_session(md, session) ==
    IF \E t \in 1..Len(md.terms) :
          \E i \in 1..Len(md.terms[t].sessions) : session = md.terms[t].sessions[i]
    THEN ReturnsTrue ELSE NoDataForPeriod(session)

\* a validate_term whose latest_only compares with the first term
validate_term_first(md, term, latest_only) ==
    IF latest_only
    THEN IF md.terms = <<>> THEN IndexError
         ELSE IF term = md.terms[1].name THEN ReturnsTrue
         ELSE NoDataForPeriod(term)
    ELSE IF \E i \in 1..Len(md.terms) : term = md.terms[i].name
         THEN ReturnsTrue ELSE NoDataForPeriod(term)

\* Scraper.validate_term on the scraper's own metadata
validate_term(md, term, latest_only) ==
    IF latest_only
    THEN IF md.terms = <<>> THEN IndexError
         ELSE IF term = md.terms[Len(md.terms)].name THEN ReturnsTrue
         ELSE NoDataForPeriod(term)
    ELSE IF \E i \in 1..Len(md.terms) : term = md.terms[i].name
         THEN ReturnsTrue ELSE NoDataForPeriod(term)

\* JSONDateEncoder.default on a datetime: time.mktime(obj.utctimetuple()),
\* the whole seconds of the date; the microseconds are not in the time tuple
JSONDateEncoder_default(obj) == obj.seconds

\* the entries of a list of dicts with the datetime under key encoded
json_dates(list, key) ==
    [i \in 1..Len(list) |->
        [list[i] EXCEPT ![key] = JSONDateEncoder_default(@)]]

\* a vote, standalone or in the votes of a bill: its date and the retrieved
\* of its sources are datetimes
json_vote(v) ==
    [v EXCEPT !.date = JSONDateEncoder_default(@),
              !.sources = json_dates(@, "retrieved")]

\* json.dump(rec, f, cls=JSONDateEncoder): texts, numbers, lists, dicts and
\* None are written as they are, every datetime in the record through
\* JSONDateEncoder.default
json_dump(rec) ==
    IF rec._type = "vote" THEN json_vote(rec)
    ELSE IF rec._type = "bill"
    THEN [rec EXCEPT !.sources = json_dates(@, "retrieved"),
                     !.actions = json_dates(@, "date"),
                     !.votes = [i \in 1..Len(@) |-> json_vote(@[i])]]
    ELSE [rec EXCEPT !.sources = json_dates(@, "retrieved")]

\* open(path, 'w') followed by json.dump
WriteFile(fs, path, doc) ==
    [p \in DOMAIN fs \cup {path} |-> IF p = path THEN doc ELSE fs[p]]

ReadFile(fs, path) == IF path \in DOMAIN fs THEN fs[path] ELSE NoFile

\* the file name save_bill computes
bill_filename(b) ==
    EncodeAsciiReplace(b.session \o <<"_">> \o b.chamber \o <<"_">>
                       \o b.bill_id \o DotJson)

\* a file name without the sequence number
vote_filename_no_seq(v, seq) ==
    v.session \o <<"_">> \o v.chamber \o <<"_">> \o v.bill_id
        \o <<"_", "s", "e", "q">> \o DotJson

\* "%s_%s_%s_seq%s.json" % (session, chamber, bill_id, self.sequence.next())
vote_filename(v, seq) ==
    v.session \o <<"_">> \o v.chamber \o <<"_">> \o v.bill_id
        \o <<"_", "s", "e", "q">> \o IntText(seq) \o DotJson

\* the name save_committee logs and builds the file name from
committee_name(c) ==
    IF "subcommittee" \in DOMAIN c
    THEN c.committee \o <<"_">> \o Text(c.subcommittee)
    ELSE c.committee

\* the file name save_committee computes
committee_filename(c) ==
    c.chamber \o <<"_">> \o Replace(committee_name(c), "/", ",") \o DotJson

-----------------------------------------------------------------------------
(* Inputs a plugin hands to the constructors *)

EmptyDict == [k \in {} |-> k]

\* the ways to pass a keyword argument: not at all, or with one of the values
Opt(key, values) == {EmptyDict} \cup {key :> v : v \in values}

HB1 == <<"H", "B", "1">>
HBe == <<"H", "B", "U+00E9">>
HBu == <<"H", "B", "U+00FC">>

BillIds == {HB1, HBe, HBu}

Finance == <<"F", "i", "n">>
WaysSlash == <<"W", "/", "M">>
WaysComma == <<"W", ",", "M">>

CommitteeNames == {Finance, WaysSlash, WaysComma}
Subcommittees == {None, <<"T", "a", "x">>}

-----------------------------------------------------------------------------
(* Building records *)

\* vote = Vote(chamber, date, motion, passed, yes_count, no_count, other_count, **kwargs)
Vote_init(chamber, yes_count, no_count, other_count, kwargs) ==
    /\ vote = NoRecord
    /\ vote' = Vote_new(chamber, yes_count, no_count, other_count, kwargs)
    /\ result' = [op |-> "Vote_init"]
    /\ UNCHANGED <<metadata, scraper, bill, committee, files>>
    /\ UNCHANGED others

\* vote.yes(legislator)
yes(legislator) ==
    /\ vote # NoRecord
    /\ Len(vote.yes_votes) < MaxVoters
    /\ vote' = [vote EXCEPT !.yes_votes = Append(@, legislator)]
    /\ result' = [op |-> "yes"]
    /\ UNCHANGED <<metadata, scraper, bill, committee, files>>
    /\ UNCHANGED others

\* vote.no(legislator)
no(legislator) ==
    /\ vote # NoRecord
    /\ Len(vote.no_votes) < MaxVoters
    /\ vote' = [vote EXCEPT !.no_votes = Append(@, legislator)]
    /\ result' = [op |-> "no"]
    /\ UNCHANGED <<metadata, scraper, bill, committee, files>>
    /\ UNCHANGED others

\* vote.other(legislator)
other(legislator) ==
    /\ vote # NoRecord
    /\ Len(vote.other_votes) < MaxVoters
    /\ vote' = [vote EXCEPT !.other_votes = Append(@, legislator)]
    /\ result' = [op |-> "other"]
    /\ UNCHANGED <<metadata, scraper, bill, committee, files>>
    /\ UNCHANGED others

\* bill = Bill(session, chamber, bill_id, title, **kwargs)
Bill_init(session, chamber, bill_id, kwargs) ==
    /\ bill = NoRecord
    /\ bill' = Bill_new(session, chamber, bill_id, kwargs)
    /\ result' = [op |-> "Bill_init"]
    /\ UNCHANGED <<metadata, scraper, vote, committee, files>>
    /\ UNCHANGED others

\* bill.add_vote(vote); the plugin adds a vote once it has filled it in
add_vote ==
    /\ bill # NoRecord
    /\ vote # NoRecord
    /\ Len(bill.votes) < MaxVotes
    /\ bill' = [bill EXCEPT !.votes = Append(@, vote)]
    /\ vote' = NoRecord
    /\ result' = [op |-> "add_vote"]
    /\ UNCHANGED <<metadata, scraper, committee, files>>
    /\ UNCHANGED others

\* committee = Committee(chamber, committee, subcommittee=None, **kwargs)
Committee_init(chamber, name, subcommittee, kwargs) ==
    /\ committee = NoRecord
    /\ committee' = Committee_new(chamber, name, subcommittee, kwargs)
    /\ result' = [op |-> "Committee_init"]
    /\ UNCHANGED <<metadata, scraper, bill, vote, files>>
    /\ UNCHANGED others

\* the entries the builder methods of a bill have added, votes aside
BuilderEntries(b) ==
    Len(b.sponsors) + Len(b.documents) + Len(b.versions) + Len(b.actions)
        + Len(b.alternate_titles)

\* record.add_source(url, **kwargs) on the bill, vote or committee in the
\* plugin's hands
add_source(kind, url, kwargs) ==
    /\ \/ /\ kind = "bill"
          /\ bill # NoRecord
          /\ Len(bill.sources) < MaxSources
          /\ bill' = SourcedObject_add_source(bill, url, kwargs)
          /\ UNCHANGED <<vote, committee>>
       \/ /\ kind = "vote"
          /\ vote # NoRecord
          /\ Len(vote.sources) < MaxSources
          /\ vote' = SourcedObject_add_source(vote, url, kwargs)
          /\ UNCHANGED <<bill, committee>>
       \/ /\ kind = "committee"
          /\ committee # NoRecord
          /\ Len(committee.sources) < MaxSources
          /\ committee' = SourcedObject_add_source(committee, url, kwargs)
          /\ UNCHANGED <<bill, vote>>
    /\ result' = [op |-> "add_source", kind |-> kind, url |-> url,
                  kwargs |-> kwargs]
    /\ UNCHANGED <<metadata, scraper, files>>
    /\ UNCHANGED others

\* bill.add_sponsor(type, name)
add_sponsor(type, name) ==
    /\ bill # NoRecord
    /\ BuilderEntries(bill) < MaxEntries
    /\ bill' = Bill_add_sponsor(bill, type, name)
    /\ result' = [op |-> "add_sponsor"]
    /\ UNCHANGED <<metadata, scraper, vote, committee, files>>
    /\ UNCHANGED others

\* bill.add_document(name, url)
add_document(name, url) ==
    /\ bill # NoRecord
    /\ BuilderEntries(bill) < MaxEntries
    /\ bill' = Bill_add_document(bill, name, url)
    /\ result' = [op |-> "add_document"]
    /\ UNCHANGED <<metadata, scraper, vote, committee, files>>
    /\ UNCHANGED others

\* bill.add_version(name, url)
add_version(name, url) ==
    /\ bill # NoRecord
    /\ BuilderEntries(bill) < MaxEntries
    /\ bill' = Bill_add_version(bill, name, url)
    /\ result' = [op |-> "add_version"]
    /\ UNCHANGED <<metadata, scraper, vote, committee, files>>
    /\ UNCHANGED others

\* bill.add_action(actor, action, date, **kwargs)
add_action(actor, action, date, kwargs) ==
    /\ bill # NoRecord
    /\ BuilderEntries(bill) < MaxEntries
    /\ bill' = Bill_add_action(bill, actor, action, date, kwargs)
    /\ result' = [op |-> "add_action"]
    /\ UNCHANGED <<metadata, scraper, vote, committee, files>>
    /\ UNCHANGED others

\* bill.add_title(title)
add_title(title) ==
    /\ bill # NoRecord
    /\ BuilderEntries(bill) < MaxEntries
    /\ bill' = Bill_add_title(bill, title)
    /\ result' = [op |-> "add_title"]
    /\ UNCHANGED <<metadata, scraper, vote, committee, files>>
    /\ UNCHANGED others

\* committee.add_member(legislator, **kwargs)
add_member(legislator, kwargs) ==
    /\ committee # NoRecord
    /\ Len(committee.members) < MaxEntries
    /\ committee' = Committee_add_member(committee, legislator, kwargs)
    /\ result' = [op |-> "add_member"]
    /\ UNCHANGED <<metadata, scraper, bill, vote, files>>
    /\ UNCHANGED others

-----------------------------------------------------------------------------
(* Validating records directly *)

\* vote.validate(standalone)
CallVoteValidate(standalone) ==
    /\ vote # NoRecord
    /\ \E schema_ok \in BOOLEAN :
          result' = [op |-> "Vote.validate", obj |-> vote,
                     standalone |-> standalone, schema_ok |-> schema_ok,
                     outcome |-> Vote_validate(metadata, vote, standalone,
                                               schema_ok)]
    /\ UNCHANGED <<metadata, scraper, bill, vote, committee, files>>
    /\ UNCHANGED others

\* bill.validate()
CallBillValidate ==
    /\ bill # NoRecord
    /\ \E schema_ok \in BOOLEAN :
          result' = [op |-> "Bill.validate", obj |-> bill,
                     schema_ok |-> schema_ok,
                     outcome |-> Bill_validate(metadata, bill, schema_ok)]
    /\ UNCHANGED <<metadata, scraper, bill, vote, committee, files>>
    /\ UNCHANGED others

\* committee.validate()
CallCommitteeValidate ==
    /\ committee # NoRecord
    /\ \E schema_ok \in BOOLEAN :
          result' = [op |-> "Committee.validate", obj |-> committee,
                     schema_ok |-> schema_ok,
                     outcome |-> Committee_validate(committee, schema_ok)]
    /\ UNCHANGED <<metadata, scraper, bill, vote, committee, files>>
    /\ UNCHANGED others

\* scraper.validate_term(term, latest_only)
CallValidateTerm(term, latest_only) ==
    /\ result' = [op |-> "validate_term", term |-> term,
                  latest_only |-> latest_only,
                  outcome |-> validate_term(metadata[scraper.state], term,
                                            latest_only)]
    /\ UNCHANGED <<metadata, scraper, bill, vote, committee, files>>
    /\ UNCHANGED others

\* scraper.validate_session(session)
CallValidateSession(session) ==
    /\ result' = [op |-> "validate_session", session |-> session,
                  outcome |-> validate_session(metadata[scraper.state],
                                               session)]
    /\ UNCHANGED <<metadata, scraper, bill, vote, committee, files>>
    /\ UNCHANGED others

-----------------------------------------------------------------------------
(* Saving records *)

\* BillScraper.save_bill(bill)
save_bill ==
    /\ scraper.scraper_type = "bills"
    /\ bill # NoRecord
    /\ \E schema_ok \in BOOLEAN :
          LET stamped == DictSet(bill, "state", scraper.state)
              validation == Bill_validate(metadata, stamped, schema_ok)
              outcome == validate_object(scraper, validation)
              path == <<"bills", bill_filename(stamped)>>
          IN /\ files' = IF outcome = "ok"
                          THEN WriteFile(files, path, json_dump(stamped))
                          ELSE files
             /\ result' = [op |-> "save_bill", obj |-> bill,
                           validated |-> stamped, schema_ok |-> schema_ok,
                           validation |-> validation, outcome |-> outcome,
                           path |-> path, previous |-> ReadFile(files, path)]
    /\ bill' = NoRecord
    /\ UNCHANGED <<metadata, scraper, vote, committee>>
    /\ UNCHANGED others

\* VoteScraper.save_vote(vote)
save_vote ==
    /\ scraper.scraper_type = "votes"
    /\ vote # NoRecord
    /\ scraper.sequence < MaxSequence
    /\ IF "session" \notin DOMAIN vote \/ "bill_id" \notin DOMAIN vote
       THEN \* the file name's arguments raise before sequence.next() runs
            /\ result' = [op |-> "save_vote", obj |-> vote,
                          validated |-> NoRecord, schema_ok |-> TRUE,
                          validation |-> "not called",
                          outcome |-> IF "session" \notin DOMAIN vote
                                      THEN KeyErrorSession
                                      ELSE "KeyError: bill_id",
                          path |-> <<"votes", <<>>>>, previous |-> NoFile]
            /\ UNCHANGED <<scraper, files>>
       ELSE \E schema_ok \in BOOLEAN :
            LET path == <<"votes", vote_filename(vote, scraper.sequence)>>
                validation == Vote_validate(metadata, vote, TRUE, schema_ok)
                outcome == validate_object(scraper, validation)
            IN /\ scraper' = [scraper EXCEPT !.sequence = @ + 1]
               /\ files' = IF outcome = "ok"
                            THEN WriteFile(files, path, json_dump(vote))
                            ELSE files
               /\ result' = [op |-> "save_vote", obj |-> vote,
                             validated |-> vote, schema_ok |-> schema_ok,
                             validation |-> validation, outcome |-> outcome,
                             path |-> path, previous |-> ReadFile(files, path)]
    /\ vote' = NoRecord
    /\ UNCHANGED <<metadata, bill, committee>>
    /\ UNCHANGED others

\* CommitteeScraper.save_committee(committee)
save_committee ==
    /\ scraper.scraper_type = "committees"
    /\ committee # NoRecord
    /\ \E schema_ok \in BOOLEAN :
          LET stamped == DictSet(committee, "state", scraper.state)
              validation == Committee_validate(stamped, schema_ok)
              outcome == validate_object(scraper, validation)
              path == <<"committees", committee_filename(committee)>>
          IN /\ files' = IF outcome = "ok"
                          THEN WriteFile(files, path, json_dump(stamped))
                          ELSE files
             /\ result' = [op |-> "save_committee", obj |-> committee,
                           validated |-> stamped, schema_ok |-> schema_ok,
                           validation |-> validation, outcome |-> outcome,
                           path |-> path, previous |-> ReadFile(files, path)]
    /\ committee' = NoRecord
    /\ UNCHANGED <<metadata, scraper, bill, vote>>
    /\ UNCHANGED others

-----------------------------------------------------------------------------
(* Scraper classes and the registry *)

\* what type.__new__ makes of a class statement: the name, the base, and the
\* attributes the class body declares
NoClass == [name |-> "object"]

Class(name, base, dict) == [name |-> name, base |-> base, dict |-> dict]

\* getattr(cls, attr, default): the class's own attribute, else its base's
RECURSIVE getattr(_, _, _)
getattr(cls, attr, default) ==
    IF cls = NoClass THEN default
    ELSE IF attr \in DOMAIN cls.dict THEN cls.dict[attr]
    ELSE getattr(cls.base, attr, default)

\* the None of getattr(cls, 'state', None)
NoAttr == "<None>"

\* `if state and scraper_type`: None and the empty string are false
Truthy(v) == v # NoAttr /\ v # ""

\* _scraper_registry = defaultdict(dict)
EmptyRegistry == EmptyDict

\* a lookup that forgets what the state had registered
defaultdict_getitem_fresh(reg, state) ==
    (state :> EmptyDict) @@ reg

\* _scraper_registry[state]: a defaultdict makes the missing state's dict
defaultdict_getitem(reg, state) ==
    IF state \in DOMAIN reg THEN reg ELSE (state :> EmptyDict) @@ reg

\* a hook that registers a class having either of the two attributes
ScraperMeta_new_either(reg, cls) ==
    LET state == getattr(cls, "state", NoAttr)
        scraper_type == getattr(cls, "scraper_type", NoAttr)
    IN  IF Truthy(state) \/ Truthy(scraper_type)
        THEN LET r == defaultdict_getitem(reg, state)
             IN  [r EXCEPT ![state] = (scraper_type :> cls) @@ r[state]]
        ELSE reg

\* ScraperMeta.__new__: the registry after the class statement of cls
ScraperMeta_new(reg, cls) ==
    LET state == getattr(cls, "state", NoAttr)
        scraper_type == getattr(cls, "scraper_type", NoAttr)
    IN  IF Truthy(state) /\ Truthy(scraper_type)
        THEN LET r == defaultdict_getitem(reg, state)
             IN  [r EXCEPT ![state] = (scraper_type :> cls) @@ r[state]]
        ELSE reg

\* the class statements of a module, executed in order
RECURSIVE exec_module(_, _)
exec_module(reg, stmts) ==
    IF stmts = <<>> THEN reg
    ELSE exec_module(ScraperMeta_new(reg, Head(stmts)), Tail(stmts))

\* billy.scrape and the modules of the record kinds
ScraperClass == Class("Scraper", NoClass, EmptyDict)
BillScraper == Class("BillScraper", ScraperClass, "scraper_type" :> "bills")
VoteScraper == Class("VoteScraper", ScraperClass, "scraper_type" :> "votes")
CommitteeScraper ==
    Class("CommitteeScraper", ScraperClass, "scraper_type" :> "committees")
\* billy.scrape.legislators
LegislatorScraper ==
    Class("LegislatorScraper", ScraperClass, "scraper_type" :> "legislators")

FrameworkClasses ==
    <<ScraperClass, BillScraper, VoteScraper, CommitteeScraper,
      LegislatorScraper>>

\* the plugin modules on disk, each with the classes it defines
WYLegislatorScraper ==
    Class("WYLegislatorScraper", LegislatorScraper, "state" :> "wy")
WYBillScraper == Class("WYBillScraper", BillScraper, "state" :> "wy")
\* a module of helpers that declares no state
NMBills == Class("NMBills", BillScraper, EmptyDict)

ModuleSource ==
    (<<"openstates.wy", "legislators">> :> <<WYLegislatorScraper>>)
    @@ (<<"openstates.wy", "bills">> :> <<WYBillScraper>>)
    @@ (<<"openstates.nm", "bills">> :> <<NMBills>>)

\* '%s.%s' % (mod_path, scraper_type): the package and the module in it
module_name(mod_path, scraper_type) == <<mod_path, scraper_type>>

\* class statements a driver or a plugin may execute besides
WYBills2 == Class("WYBills2", BillScraper, "state" :> "wy")
WYSessionBills == Class("WYSessionBills", WYBillScraper, EmptyDict)
NMBase == Class("NMBase", ScraperClass, "state" :> "nm")
NMVotes == Class("NMVotes", VoteScraper, "state" :> "nm")

ClassStatements == {WYBills2, WYSessionBills, NMBase, NMVotes}

\* ScrapeError(msg, orig_exception=None)
ScrapeError(msg, orig_exception) ==
    [exc |-> "ScrapeError", msg |-> msg, orig_exception |-> orig_exception]

\* return ScraperClass
Returns(value) == [exc |-> "none", value |-> value]

\* a lookup that settles for any class of the state
get_scraper_lookup_any_kind(reg, state, scraper_type) ==
    LET r == defaultdict_getitem(reg, state)
    IN  IF scraper_type \in DOMAIN r[state]
        THEN Returns(r[state][scraper_type])
        ELSE IF DOMAIN r[state] # {}
        THEN Returns(r[state][CHOOSE k \in DOMAIN r[state] : TRUE])
        ELSE ScrapeError("no scraper found", NoAttr)

\* get_scraper after the import: _scraper_registry[state][scraper_type]
get_scraper_lookup(reg, state, scraper_type) ==
    LET r == defaultdict_getitem(reg, state)
    IN  IF scraper_type \in DOMAIN r[state]
        THEN Returns(r[state][scraper_type])
        ELSE ScrapeError("no scraper found", NoAttr)

-----------------------------------------------------------------------------
(* Specifications *)

ScraperTypes == {"bills", "votes", "committees"}

\* what billy's database holds for the two jurisdictions
StateMetadata ==
    [j \in Jurisdictions |->
        IF j = "wy" THEN DefaultMetadata
        ELSE [terms |-> << [name |-> "2009-2010",
                            sessions |-> <<S2009, S2010>>] >>]]

\* Scraper.__init__ / VoteScraper.__init__: sequence = itertools.count()
Scraper_new(state, scraper_type, strict_validation) ==
    [state |-> state, scraper_type |-> scraper_type,
     strict_validation |-> strict_validation, sequence |-> 0]

\* no instance: the constructor raised
NoScraper == [scraper_type |-> "none"]

StateMissing == "Exception: Scrapers must have a state attribute"

\* a constructor that asks for a scraper_type instead of a state
Scraper_init_wants_kind(cls, strict_validation) ==
    IF getattr(cls, "scraper_type", NoAttr) = NoAttr
    THEN [outcome |-> StateMissing, instance |-> NoScraper]
    ELSE [outcome |-> "ok",
          instance |-> Scraper_new(getattr(cls, "state", NoAttr),
                                   getattr(cls, "scraper_type", NoAttr),
                                   strict_validation)]

\* Scraper.__init__ on an instance of cls: hasattr(self, 'state') or raise
Scraper_init(cls, strict_validation) ==
    IF getattr(cls, "state", NoAttr) = NoAttr
    THEN [outcome |-> StateMissing, instance |-> NoScraper]
    ELSE [outcome |-> "ok",
          instance |-> Scraper_new(getattr(cls, "state", NoAttr),
                                   getattr(cls, "scraper_type", NoAttr),
                                   strict_validation)]

\* the interpreter after importing billy.scrape and the record kinds' modules
FrameworkLoaded ==
    /\ registry = exec_module(EmptyRegistry, FrameworkClasses)
    /\ classes = {FrameworkClasses[i] : i \in 1..Len(FrameworkClasses)}
    /\ modules = {}

NothingBuilt ==
    /\ bill = NoRecord
    /\ vote = NoRecord
    /\ committee = NoRecord
    /\ files = EmptyDict
    /\ result = NoResult
    /\ FrameworkLoaded
    /\ procs = EmptyDict

\* one scraper of some kind saving the records its plugin builds
Init ==
    /\ metadata = StateMetadata
    /\ scraper \in {Scraper_new(st, ty, strict) :
                      st \in Jurisdictions, ty \in ScraperTypes,
                      strict \in BOOLEAN}
    /\ NothingBuilt

\* the plugin of a scraper builds the records of the scraper's kind
Next ==
    \/ /\ scraper.scraper_type = "bills"
       /\ \E s \in {S2011, S2013}, id \in BillIds :
             Bill_init(s, Upper, id, EmptyDict)
    \/ /\ scraper.scraper_type = "votes"
       /\ \E s \in Opt("session", {S2011, S2013}), st \in Opt("state", {"wy"}) :
             Vote_init(Upper, 0, 0, 0, s @@ ("bill_id" :> HB1) @@ st)
    \/ /\ scraper.scraper_type = "committees"
       /\ \E n \in CommitteeNames, sub \in Subcommittees :
             Committee_init(Upper, n, sub, EmptyDict)
    \/ save_bill
    \/ save_vote
    \/ save_committee

Spec == Init /\ [][Next]_vars

\* a plugin building votes and validating them
InitVote ==
    /\ metadata = StateMetadata
    /\ scraper = Scraper_new("wy", "votes", FALSE)
    /\ NothingBuilt

NextVote ==
    \/ \E yc \in 0..MaxCount, nc \in 0..MaxCount, oc \in 0..MaxCount,
          s \in Opt("session", {S2011, S2013}), st \in Opt("state", {"wy"}) :
          Vote_init(Upper, yc, nc, oc, s @@ ("bill_id" :> HB1) @@ st)
    \/ \E l \in Legislators : yes(l)
    \/ \E l \in Legislators : no(l)
    \/ \E l \in Legislators : other(l)
    \/ \E standalone \in BOOLEAN : CallVoteValidate(standalone)

SpecVote == InitVote /\ [][NextVote]_vars

\* a plugin building bills with embedded votes and validating them
InitBill ==
    /\ metadata = StateMetadata
    /\ scraper = Scraper_new("wy", "bills", FALSE)
    /\ NothingBuilt

NextBill ==
    \/ \E s \in Sessions, st \in Opt("state", Jurisdictions) :
          Bill_init(s, Lower, HB1, st)
    \/ \E yc \in 0..MaxCount, s \in Opt("session", {S2013}) :
          Vote_init(Lower, yc, 0, 0, s)
    \/ \E l \in Legislators : yes(l)
    \/ add_vote
    \/ CallBillValidate

SpecBill == InitBill /\ [][NextBill]_vars

\* a driver asking a scraper about terms, for every metadata
InitTerm ==
    /\ metadata \in [Jurisdictions -> Metadatas]
    /\ scraper \in {Scraper_new(st, "bills", FALSE) : st \in Jurisdictions}
    /\ NothingBuilt

NextTerm ==
    \/ \E term \in TermNames, latest_only \in BOOLEAN :
          CallValidateTerm(term, latest_only)
    \/ \E session \in Sessions \cup {S2010} : CallValidateSession(session)

SpecTerm == InitTerm /\ [][NextTerm]_vars

\* a class statement executes
DefineClass(cls) ==
    /\ cls.base \in classes
    /\ classes' = classes \cup {cls}
    /\ registry' = ScraperMeta_new(registry, cls)
    /\ result' = [op |-> "class", cls |-> cls]
    /\ UNCHANGED <<metadata, scraper, bill, vote, committee, files>>
    /\ UNCHANGED <<modules, procs>>

\* get_scraper(mod_path, state, scraper_type)
get_scraper(mod_path, state, scraper_type) ==
    LET module == module_name(mod_path, scraper_type)
        call == [op |-> "get_scraper", mod_path |-> mod_path,
                 state |-> state, scraper_type |-> scraper_type,
                 cached |-> module \in modules]
    IN  /\ IF module \notin DOMAIN ModuleSource
           THEN \* __import__ raises ImportError
                /\ result' = call @@ [outcome |->
                                ScrapeError("could not import", "ImportError")]
                /\ UNCHANGED <<registry, classes, modules>>
           ELSE \* a module in sys.modules is not executed again
                LET stmts == IF module \in modules THEN <<>>
                             ELSE ModuleSource[module]
                    imported == exec_module(registry, stmts)
                IN  /\ modules' = modules \cup {module}
                    /\ classes' = classes \cup {stmts[i] : i \in 1..Len(stmts)}
                    /\ registry' = defaultdict_getitem(imported, state)
                    /\ result' = call @@ [outcome |->
                                    get_scraper_lookup(imported, state,
                                                       scraper_type)]
        /\ UNCHANGED <<metadata, scraper, bill, vote, committee, files>>
        /\ UNCHANGED procs

\* the driver instantiates a scraper class
Scraper_construct(cls, strict_validation) ==
    LET made == Scraper_init(cls, strict_validation)
    IN  /\ scraper' = IF made.outcome = "ok" THEN made.instance ELSE scraper
        /\ result' = [op |-> "Scraper", cls |-> cls,
                      strict_validation |-> strict_validation,
                      outcome |-> made.outcome, instance |-> made.instance]
        /\ UNCHANGED <<metadata, bill, vote, committee, files>>
        /\ UNCHANGED others

Packages == {"openstates.wy", "openstates.nm", "openstates.zz"}

LookupStates == {"wy", "nm", "zz"}

LookupTypes == {"bills", "votes", "legislators"}

\* a driver defining classes and asking the registry for classes
InitRegistry ==
    /\ metadata = StateMetadata
    /\ scraper = NoScraper
    /\ NothingBuilt

NextRegistry ==
    \/ \E cls \in ClassStatements : DefineClass(cls)
    \/ \E mod_path \in Packages, state \in LookupStates,
          scraper_type \in LookupTypes :
          get_scraper(mod_path, state, scraper_type)

SpecRegistry == InitRegistry /\ [][NextRegistry]_vars

\* a driver defining classes and instantiating the classes there are
InitConstruct ==
    /\ metadata = StateMetadata
    /\ scraper = NoScraper
    /\ NothingBuilt

NextConstruct ==
    \/ \E cls \in ClassStatements : DefineClass(cls)
    \/ \E cls \in classes, strict \in BOOLEAN : Scraper_construct(cls, strict)

SpecConstruct == InitConstruct /\ [][NextConstruct]_vars

-----------------------------------------------------------------------------
(* Several scraper instances saving into one output directory *)

\* a summary too long for the rest of the record to fit the file's buffer
LongText == <<"L", "o", "n", "g">>

\* the number of buffers json.dump(rec, f) fills: f.write() collects the
\* text in the file object's buffer, which goes to the file when it is full
\* and when the with block closes f
Buffers(doc) == IF "summary" \in DOMAIN doc THEN 2 ELSE 1

\* the text of doc as the buffers written one after the other
Blocks(doc) == [k \in 1..Buffers(doc) |-> [doc |-> doc, part |-> k]]

\* bytes of a file that nobody wrote: a write behind the end leaves a hole
Hole == [doc |-> NoRecord, part |-> 0]

\* open(path, 'w'): the file is created, or truncated to nothing
OpenForWriting(fs, path) == WriteFile(fs, path, <<>>)

\* write(2) of one buffer at the writer's own offset in the file
WriteBlock(fs, path, offset, block) ==
    LET old == fs[path]
        len == IF offset + 1 > Len(old) THEN offset + 1 ELSE Len(old)
    IN  [fs EXCEPT ![path] =
            [k \in 1..len |-> IF k = offset + 1 THEN block
                              ELSE IF k <= Len(old) THEN old[k]
                              ELSE Hole]]

\* the part of save_bill, save_vote and save_committee before open():
\* the stamp, validate_object and the file name
BeforeOpen(scr, rec, schema_ok) ==
    IF rec._type = "bill"
    THEN LET stamped == DictSet(rec, "state", scr.state)
         IN  [outcome |-> validate_object(scr,
                              Bill_validate(metadata, stamped, schema_ok)),
              path |-> <<"bills", bill_filename(stamped)>>,
              doc |-> json_dump(stamped), scraper |-> scr]
    ELSE IF rec._type = "vote"
    THEN [outcome |-> validate_object(scr,
                          Vote_validate(metadata, rec, TRUE, schema_ok)),
          path |-> <<"votes", vote_filename(rec, scr.sequence)>>,
          doc |-> json_dump(rec),
          scraper |-> [scr EXCEPT !.sequence = @ + 1]]
    ELSE LET stamped == DictSet(rec, "state", scr.state)
         IN  [outcome |-> validate_object(scr,
                              Committee_validate(stamped, schema_ok)),
              path |-> <<"committees", committee_filename(rec)>>,
              doc |-> json_dump(stamped), scraper |-> scr]

\* instance i runs its save_* call up to the open()
SaveBegin(i) ==
    /\ procs[i].pc = "call"
    /\ \E schema_ok \in BOOLEAN :
          LET b == BeforeOpen(procs[i].scraper, procs[i].record, schema_ok)
          IN  procs' = [procs EXCEPT ![i] =
                  [@ EXCEPT !.pc = IF b.outcome = "ok" THEN "open" ELSE "raised",
                            !.path = b.path, !.doc = b.doc,
                            !.scraper = b.scraper]]
    /\ UNCHANGED <<metadata, scraper, bill, vote, committee, files, result>>
    /\ UNCHANGED <<registry, classes, modules>>

\* instance i opens its file
SaveOpen(i) ==
    /\ procs[i].pc = "open"
    /\ files' = OpenForWriting(files, procs[i].path)
    /\ procs' = [procs EXCEPT ![i] = [@ EXCEPT !.pc = "write"]]
    /\ UNCHANGED <<metadata, scraper, bill, vote, committee, result>>
    /\ UNCHANGED <<registry, classes, modules>>

\* instance i writes its next buffer
SaveWrite(i) ==
    /\ procs[i].pc = "write"
    /\ procs[i].written < Buffers(procs[i].doc)
    /\ files' = WriteBlock(files, procs[i].path, procs[i].written,
                           Blocks(procs[i].doc)[procs[i].written + 1])
    /\ procs' = [procs EXCEPT ![i] = [@ EXCEPT !.written = @ + 1]]
    /\ UNCHANGED <<metadata, scraper, bill, vote, committee, result>>
    /\ UNCHANGED <<registry, classes, modules>>

\* instance i leaves the with block and returns
SaveReturn(i) ==
    /\ procs[i].pc = "write"
    /\ procs[i].written = Buffers(procs[i].doc)
    /\ procs' = [procs EXCEPT ![i] = [@ EXCEPT !.pc = "done"]]
    /\ UNCHANGED <<metadata, scraper, bill, vote, committee, files, result>>
    /\ UNCHANGED <<registry, classes, modules>>

\* an instance of a scraper about to save a record of its kind
Proc(scr, rec) ==
    [scraper |-> scr, record |-> rec, pc |-> "call",
     path |-> <<"", <<>>>>, doc |-> NoRecord, written |-> 0]

ConcurrentSaves ==
    {Proc(Scraper_new("wy", "bills", FALSE), Bill_new(S2011, Upper, id, kw)) :
        id \in {HBe, HBu}, kw \in Opt("summary", {LongText})}
    \cup {Proc(Scraper_new("wy", "committees", FALSE),
               Committee_new(Upper, n, None, EmptyDict)) :
            n \in {WaysSlash, WaysComma}}
    \cup {Proc(Scraper_new("wy", "votes", FALSE),
               Vote_new(Upper, 0, 0, 0,
                        ("session" :> S2011) @@ ("bill_id" :> HB1)
                            @@ ("state" :> "wy")))}

\* scraper instances of one jurisdiction, each in a save_* call
InitConcurrent ==
    /\ metadata = StateMetadata
    /\ scraper = NoScraper
    /\ bill = NoRecord
    /\ vote = NoRecord
    /\ committee = NoRecord
    /\ files = EmptyDict
    /\ result = NoResult
    /\ FrameworkLoaded
    /\ procs \in [1..NumInstances -> ConcurrentSaves]

NextConcurrent ==
    \E i \in 1..NumInstances :
        \/ SaveBegin(i)
        \/ SaveOpen(i)
        \/ SaveWrite(i)
        \/ SaveReturn(i)

SpecConcurrent == InitConcurrent /\ [][NextConcurrent]_vars

-----------------------------------------------------------------------------
(* A plugin building one record with its sources, validating and saving it *)

SourceUrl == "http://legisweb.state.wy.us/"

\* a datetime the plugin passes as retrieved
RetrievedAt == [seconds |-> 1298000000, microsecond |-> 0]

InitSources ==
    /\ metadata = StateMetadata
    /\ scraper \in {Scraper_new("wy", ty, strict) :
                      ty \in ScraperTypes, strict \in BOOLEAN}
    /\ NothingBuilt

\* the plugin constructs its record while the scraper has saved none
NextSources ==
    \/ /\ scraper.scraper_type = "bills"
       /\ files = EmptyDict
       /\ Bill_init(S2011, Upper, HB1, EmptyDict)
    \/ /\ scraper.scraper_type \in {"bills", "votes"}
       /\ files = EmptyDict
       /\ Vote_init(Upper, 0, 0, 0,
                    ("session" :> S2011) @@ ("bill_id" :> HB1)
                        @@ ("state" :> "wy"))
    \/ /\ scraper.scraper_type = "committees"
       /\ files = EmptyDict
       /\ Committee_init(Upper, Finance, None, EmptyDict)
    \/ \E kw \in Opt("retrieved", {RetrievedAt}) :
          add_source(IF scraper.scraper_type = "bills" THEN "bill"
                     ELSE IF scraper.scraper_type = "votes" THEN "vote"
                     ELSE "committee",
                     SourceUrl, kw)
    \/ add_sponsor("primary", "Smith")
    \/ add_document("Fiscal Note", SourceUrl)
    \/ add_version("As Introduced", SourceUrl)
    \/ \E kw \in Opt("type", {"bill:introduced"}) :
          add_action(Upper, "Introduced", RetrievedAt, kw)
    \/ add_title("An act, too")
    \/ add_vote
    \/ /\ scraper.scraper_type = "votes"
       /\ \/ \E l \in Legislators : yes(l)
          \/ \E l \in Legislators : no(l)
          \/ \E l \in Legislators : other(l)
    \/ \E kw \in Opt("role", {"chairman"}) : add_member("Smith", kw)
    \/ CallBillValidate
    \/ \E standalone \in BOOLEAN : CallVoteValidate(standalone)
    \/ CallCommitteeValidate
    \/ save_bill
    \/ save_vote
    \/ save_committee

SpecSources == InitSources /\ [][NextSources]_vars

-----------------------------------------------------------------------------
(* Properties *)

CountErrors == {BadYesCount, BadNoCount, BadOtherCount}

SaveOps == {"save_bill", "save_vote", "save_committee"}

AnyNamed(v) == v.yes_votes # <<>> \/ v.no_votes # <<>> \/ v.other_votes # <<>>

CountsMatch(v) ==
    /\ Len(v.yes_votes) = v.yes_count
    /\ Len(v.no_votes) = v.no_count
    /\ Len(v.other_votes) = v.other_count

\* C1: whenever Vote.validate gets as far as its count check, it rejects the
\* vote exactly when some list has a name and some list's length differs from
\* its count; a vote with three empty lists is never rejected by the check
C1_CountCheck ==
    (result.op = "Vote.validate" /\ result.outcome \in CountErrors \cup {"ok"})
        => /\ result.outcome \in CountErrors
                <=> (AnyNamed(result.obj) /\ ~CountsMatch(result.obj))
           /\ ~AnyNamed(result.obj) => result.outcome = "ok"

\* a vote whose yes list matches and whose empty no list does not is rejected
C1_Witness ==
    /\ result.op = "Vote.validate"
    /\ result.obj.yes_votes # <<>>
    /\ Len(result.obj.yes_votes) = result.obj.yes_count
    /\ result.obj.no_votes = <<>>
    /\ result.obj.no_count > 0
    /\ result.outcome = BadNoCount

\* C2: Bill.validate raises a ValueError-class error whenever the bill's
\* session is not among get_sessions of the state stamped on the bill,
\* whatever its embedded votes and whatever the schema says
C2_BadSessionRejected ==
    (/\ result.op = "Bill.validate"
     /\ "state" \in DOMAIN result.obj
     /\ result.obj.session \notin get_sessions(metadata, result.obj.state))
        => result.outcome \in ValueErrors

\* a schema-valid bill with an embedded vote and an unknown session is rejected
C2_Witness ==
    /\ result.op = "Bill.validate"
    /\ "state" \in DOMAIN result.obj
    /\ result.obj.session \notin get_sessions(metadata, result.obj.state)
    /\ result.schema_ok
    /\ result.obj.votes # <<>>
    /\ result.outcome = BadSession

\* C3: a schema-valid bill with a known session is rejected exactly when one
\* of its embedded votes violates the count invariant, and then with a count
\* error: never because an embedded vote has no session or an unknown one
C3_EmbeddedVotes ==
    (/\ result.op = "Bill.validate"
     /\ result.schema_ok
     /\ "state" \in DOMAIN result.obj
     /\ result.obj.session \in get_sessions(metadata, result.obj.state))
        => /\ result.outcome \in CountErrors \cup {"ok"}
           /\ result.outcome \in CountErrors
                <=> \E i \in 1..Len(result.obj.votes) :
                       /\ AnyNamed(result.obj.votes[i])
                       /\ ~CountsMatch(result.obj.votes[i])

\* a bill with a known session embedding a vote that has no session and a
\* wrong yes count is rejected for the count
C3_Witness ==
    /\ result.op = "Bill.validate"
    /\ result.schema_ok
    /\ "state" \in DOMAIN result.obj
    /\ result.obj.session \in get_sessions(metadata, result.obj.state)
    /\ \E i \in 1..Len(result.obj.votes) :
          /\ "session" \notin DOMAIN result.obj.votes[i]
          /\ AnyNamed(result.obj.votes[i])
    /\ result.outcome = BadYesCount

\* C4: Vote.validate(standalone=True) raises a ValueError-class error when the
\* vote's session is not among get_sessions of the vote's state;
\* Vote.validate(standalone=False) ends as the count check alone decides
C4_StandaloneSessionCheck ==
    result.op = "Vote.validate"
        => /\ (/\ result.standalone
               /\ "session" \in DOMAIN result.obj
               /\ "state" \in DOMAIN result.obj
               /\ result.obj.session
                      \notin get_sessions(metadata, result.obj.state))
                 => result.outcome \in ValueErrors
           /\ ~result.standalone
                 => /\ result.outcome \in CountErrors \cup {"ok"}
                    /\ result.outcome = "ok"
                          <=> (~AnyNamed(result.obj) \/ CountsMatch(result.obj))

\* a vote with an unknown session and matching counts, accepted in embedded mode
C4_Witness ==
    /\ result.op = "Vote.validate"
    /\ ~result.standalone
    /\ "session" \in DOMAIN result.obj
    /\ "state" \in DOMAIN result.obj
    /\ result.obj.session \notin get_sessions(metadata, result.obj.state)
    /\ AnyNamed(result.obj)
    /\ result.outcome = "ok"

\* C5: every save_* call that reaches validate_object hands it a record that
\* carries the scraper's state, and the file it writes carries it too
C5_SaveStampsState ==
    (result.op \in SaveOps /\ result.validation # "not called")
        => /\ "state" \in DOMAIN result.validated
           /\ result.validated.state = scraper.state
           /\ result.outcome = "ok"
                 => /\ "state" \in DOMAIN files[result.path]
                    /\ files[result.path].state = scraper.state

\* C6: validate_object raises what obj.validate() raised when
\* strict_validation is set, returns normally when it is not, and returns
\* normally in both modes when obj.validate() returned
C6_ValidateObject ==
    result.op \in SaveOps
        => /\ result.validation = "ok" => result.outcome = "ok"
           /\ result.validation \in ValueErrors
                 => result.outcome = IF scraper.strict_validation
                                     THEN result.validation ELSE "ok"

\* a strict scraper's save raised the validation error
C6_Witness ==
    /\ result.op \in SaveOps
    /\ scraper.strict_validation
    /\ result.validation \in ValueErrors
    /\ result.outcome = result.validation

\* a step of save_bill, save_vote or save_committee
SaveStep ==
    \/ bill # NoRecord /\ bill' = NoRecord
    \/ vote # NoRecord /\ vote' = NoRecord /\ bill' = bill
    \/ committee # NoRecord /\ committee' = NoRecord

\* C7: a save_* call whose record fails validation returns normally and writes
\* exactly one file when strict_validation is off, and raises the validation
\* error and leaves the output directory as it was when it is on
C7_StrictPropagation ==
    [][(SaveStep /\ result'.validation \in ValueErrors)
          => IF scraper.strict_validation
             THEN /\ result'.outcome = result'.validation
                  /\ files' = files
             ELSE /\ result'.outcome = "ok"
                  /\ DOMAIN files' = DOMAIN files \cup {result'.path}
                  /\ files'[result'.path] = json_dump(result'.validated)
                  /\ \A p \in DOMAIN files \ {result'.path} :
                        files'[p] = files[p]]_vars

\* a non-strict scraper wrote the file of a vote that failed validation
C7_Witness ==
    /\ result.op = "save_vote"
    /\ ~scraper.strict_validation
    /\ result.validation = BadSession
    /\ result.outcome = "ok"
    /\ result.path \in DOMAIN files
    /\ files[result.path] = json_dump(result.validated)

SameBillKey(a, b) ==
    a.session = b.session /\ a.chamber = b.chamber /\ a.bill_id = b.bill_id

\* C8: after a save_bill call that wrote, the file holds the bill just saved,
\* no other file holds a bill with the same session, chamber and bill_id, and
\* the call did not overwrite a bill with a different bill_id
C8_BillFiles ==
    (result.op = "save_bill" /\ result.outcome = "ok")
        => /\ files[result.path] = json_dump(result.validated)
           /\ \A p \in DOMAIN files :
                 SameBillKey(files[p], result.validated) => p = result.path
           /\ result.previous # NoFile
                 => result.previous.bill_id = result.validated.bill_id

\* C9: save_committee names the file of a committee without a subcommittee
\* '<chamber>_<committee with / replaced>.json', and never overwrites the file
\* of a committee with another chamber, committee or subcommittee
C9_CommitteeFileName ==
    result.op = "save_committee"
        => /\ result.obj.subcommittee = None
                 => result.path[2] = result.obj.chamber \o <<"_">>
                        \o Replace(result.obj.committee, "/", ",") \o DotJson
           /\ (result.outcome = "ok" /\ result.previous # NoFile)
                 => /\ result.previous.chamber = result.obj.chamber
                    /\ result.previous.committee = result.obj.committee
                    /\ result.previous.subcommittee = result.obj.subcommittee

C11_ValidateSession ==
    [][result'.op = "validate_session"
          => LET terms == metadata[scraper.state].terms
                 known == \E t \in 1..Len(terms) :
                             \E i \in 1..Len(terms[t].sessions) :
                                result'.session = terms[t].sessions[i]
             IN /\ result'.outcome = ReturnsTrue <=> known
                /\ ~known => result'.outcome = NoDataForPeriod(result'.session)
                /\ metadata' = metadata]_vars

\* a session of the first of two terms is accepted
C11_Witness ==
    /\ result.op = "validate_session"
    /\ Len(metadata[scraper.state].terms) = 2
    /\ result.session = metadata[scraper.state].terms[1].sessions[1]
    /\ result.session # metadata[scraper.state].terms[2].sessions[1]
    /\ result.outcome = ReturnsTrue

\* the entries of a registry: (state, scraper_type, class)
Entries(reg) ==
    UNION {{<<st, ty, reg[st][ty]>> : ty \in DOMAIN reg[st]} : st \in DOMAIN reg}

Registered(reg) == {<<e[1], e[2]>> : e \in Entries(reg)}

\* C12: a class statement enters the class into the registry exactly when the
\* class has both a state and a scraper_type; then the entry of that (state,
\* scraper_type) is the class just defined and every other entry is as before;
\* a class missing either one leaves the registry unchanged
C12_Registration ==
    [][result'.op = "class"
          => LET cls == result'.cls
                 state == getattr(cls, "state", NoAttr)
                 scraper_type == getattr(cls, "scraper_type", NoAttr)
             IN  IF state # NoAttr /\ scraper_type # NoAttr
                 THEN Entries(registry')
                        = {e \in Entries(registry) :
                              ~(e[1] = state /\ e[2] = scraper_type)}
                          \cup {<<state, scraper_type, cls>>}
                 ELSE registry' = registry]_vars

\* a subclass inheriting both attributes has taken the entry of its base,
\* and the state's other entry is still there
C12_Witness ==
    /\ result.op = "class"
    /\ result.cls.dict = EmptyDict
    /\ <<"wy", "bills", result.cls>> \in Entries(registry)
    /\ <<"wy", "legislators", WYLegislatorScraper>> \in Entries(registry)

\* C13: get_scraper fails with ScrapeError when the module cannot be imported
\* and when the import leaves no class registered for (state, scraper_type);
\* otherwise it returns the class registered for (state, scraper_type), which
\* is a class of that state and that scraper_type
C13_GetScraper ==
    result.op = "get_scraper"
        => LET module == module_name(result.mod_path, result.scraper_type)
               key == <<result.state, result.scraper_type>>
           IN  IF module \notin DOMAIN ModuleSource
               THEN result.outcome.exc = "ScrapeError"
               ELSE IF key \notin Registered(registry)
               THEN result.outcome.exc = "ScrapeError"
               ELSE /\ result.outcome
                         = Returns(registry[result.state][result.scraper_type])
                    /\ getattr(result.outcome.value, "state", NoAttr)
                         = result.state
                    /\ getattr(result.outcome.value, "scraper_type", NoAttr)
                         = result.scraper_type

\* a module that was imported, with classes registered for the state but none
\* of the kind asked for
C13_Witness ==
    /\ result.op = "get_scraper"
    /\ module_name(result.mod_path, result.scraper_type) \in modules
    /\ result.state \in DOMAIN registry
    /\ registry[result.state] # EmptyDict
    /\ result.outcome.exc = "ScrapeError"

\* C14: no step removes a registered (state, scraper_type); a get_scraper of
\* a module imported before changes no entry and returns the class that was
\* registered before it; a get_scraper repeated right away ends as the first
C14_IdempotentMonotonic ==
    [][/\ Registered(registry) \subseteq Registered(registry')
       /\ (result'.op = "get_scraper" /\ result'.cached)
             => /\ Entries(registry') = Entries(registry)
                /\ result'.outcome.exc = "none"
                      => <<result'.state, result'.scraper_type,
                           result'.outcome.value>> \in Entries(registry)
       /\ (/\ result.op = "get_scraper"
           /\ result'.op = "get_scraper"
           /\ result'.mod_path = result.mod_path
           /\ result'.state = result.state
           /\ result'.scraper_type = result.scraper_type)
             => result'.outcome = result.outcome]_vars

\* the second get_scraper of a module returns a class while the state has
\* two kinds registered
C14_Witness ==
    /\ result.op = "get_scraper"
    /\ result.cached
    /\ result.outcome.exc = "none"
    /\ \E e \in Entries(registry) :
          e[1] = result.state /\ e[2] # result.scraper_type

\* C15: constructing a scraper of a class without a state attribute raises and
\* makes no instance; constructing one of a class with a state attribute
\* makes an instance of that state with the strict flag given
C15_Construction ==
    [][result'.op = "Scraper"
          => IF getattr(result'.cls, "state", NoAttr) = NoAttr
             THEN /\ result'.outcome = StateMissing
                  /\ result'.instance = NoScraper
                  /\ scraper' = scraper
             ELSE /\ result'.outcome = "ok"
                  /\ scraper' = result'.instance
                  /\ scraper'.state = getattr(result'.cls, "state", NoAttr)
                  /\ scraper'.strict_validation
                        = result'.strict_validation]_vars

\* a record kind's base class, which has a scraper_type and no state, was
\* instantiated after a plugin's class had been
C15_Witness ==
    /\ result.op = "Scraper"
    /\ getattr(result.cls, "scraper_type", NoAttr) # NoAttr
    /\ result.outcome = StateMissing
    /\ scraper # NoScraper

VoteFiles(fs) == {p \in DOMAIN fs : p[1] = "votes"}

\* C16: a save_vote call that gets to naming its file takes the number the
\* scraper's counter stands at, which is the number of files it has named
\* (0 at first), and moves the counter on by one; no file of that name exists
\* yet, so the call overwrites no file of an earlier save_vote; a call that
\* fails before naming a file takes no number
C16_VoteSequence ==
    [][(result'.op = "save_vote" /\ vote # NoRecord /\ vote' = NoRecord)
          => IF result'.validated # NoRecord
             THEN /\ result'.path
                        = <<"votes", vote_filename(vote, scraper.sequence)>>
                  /\ scraper'.sequence = scraper.sequence + 1
                  /\ result'.path \notin DOMAIN files
                  /\ Cardinality(VoteFiles(files)) <= scraper.sequence
                  /\ Cardinality(VoteFiles(files')) <= scraper'.sequence
             ELSE /\ scraper' = scraper
                  /\ files' = files]_vars

\* the same vote saved twice lies in two files
C16_Witness ==
    /\ result.op = "save_vote"
    /\ scraper.sequence = 2
    /\ \E p, q \in VoteFiles(files) : p # q /\ files[p] = files[q]

\* what names a record: session, chamber and bill_id of a bill, these and
\* the sequence number of a vote, chamber, committee and subcommittee of a
\* committee
NaturalKey(p) ==
    IF p.record._type = "bill"
    THEN <<"bill", p.record.session, p.record.chamber, p.record.bill_id>>
    ELSE IF p.record._type = "vote"
    THEN <<"vote", p.record.session, p.record.chamber, p.record.bill_id,
           p.scraper.sequence - 1>>
    ELSE <<"committee", p.record.chamber, p.record.committee,
           p.record.subcommittee>>

\* the file at path is the whole text of doc and nothing else
Holds(fs, path, doc) == path \in DOMAIN fs /\ fs[path] = Blocks(doc)

\* C17: when all concurrent save_* calls have returned, two calls with
\* different natural keys have written different files and each file holds
\* its record; two calls with the same natural key have written the same
\* file, which holds the record of one of them
C17_ConcurrentSaves ==
    (\A i \in 1..NumInstances : procs[i].pc = "done")
        => \A i, j \in 1..NumInstances :
              IF NaturalKey(procs[i]) # NaturalKey(procs[j])
              THEN /\ procs[i].path # procs[j].path
                   /\ Holds(files, procs[i].path, procs[i].doc)
                   /\ Holds(files, procs[j].path, procs[j].doc)
              ELSE /\ procs[i].path = procs[j].path
                   /\ \E k \in 1..NumInstances :
                         /\ NaturalKey(procs[k]) = NaturalKey(procs[i])
                         /\ Holds(files, procs[i].path, procs[k].doc)

\* a call has left a record with the entries of sources and the type tag it had
KeepsSources(old, new) ==
    (old # NoRecord /\ new # NoRecord)
        => new.sources = old.sources /\ new._type = old._type

\* a constructor has made a record without sources
StartsEmpty(old, new) ==
    (old = NoRecord /\ new # NoRecord) => new.sources = <<>>

\* add_source has put one entry with the url and a retrieved datetime behind
\* the entries there were
AppendsSource(old, new, url) ==
    /\ Len(new.sources) = Len(old.sources) + 1
    /\ SubSeq(new.sources, 1, Len(old.sources)) = old.sources
    /\ new.sources[Len(new.sources)].url = url
    /\ new.sources[Len(new.sources)].retrieved \in {RetrievedAt, utcnow}
    /\ new._type = old._type

\* C18: a record starts with no sources; add_source puts exactly one entry,
\* with the url given and a retrieved datetime, behind the others; every
\* other builder, validate and save_* call leaves the entries of sources and
\* the type tag as they were, also of the record save_* has stamped and of the
\* vote add_vote has put into the bill
C18_SourcesAppendOnly ==
    [][/\ StartsEmpty(bill, bill')
       /\ StartsEmpty(vote, vote')
       /\ StartsEmpty(committee, committee')
       /\ IF result'.op = "add_source"
          THEN /\ result'.kind = "bill"
                     => AppendsSource(bill, bill', result'.url)
               /\ result'.kind = "vote"
                     => AppendsSource(vote, vote', result'.url)
               /\ result'.kind = "committee"
                     => AppendsSource(committee, committee', result'.url)
               /\ result'.kind # "bill" => KeepsSources(bill, bill')
               /\ result'.kind # "vote" => KeepsSources(vote, vote')
               /\ result'.kind # "committee"
                     => KeepsSources(committee, committee')
          ELSE /\ KeepsSources(bill, bill')
               /\ KeepsSources(vote, vote')
               /\ KeepsSources(committee, committee')
       /\ result'.op = "add_vote"
             => KeepsSources(vote, bill'.votes[Len(bill'.votes)])
       /\ (result'.op = "save_bill" /\ bill' = NoRecord)
             => KeepsSources(bill, result'.validated)
       /\ (result'.op = "save_vote" /\ vote' = NoRecord
             /\ result'.validated # NoRecord)
             => KeepsSources(vote, result'.validated)
       /\ (result'.op = "save_committee" /\ committee' = NoRecord)
             => KeepsSources(committee, result'.validated)]_vars

\* a bill with two sources, one with the retrieved passed and one without,
\* a sponsor and an embedded vote has been saved
C18_Witness ==
    /\ result.op = "save_bill"
    /\ Len(result.validated.sources) = 2
    /\ result.validated.sources[1].retrieved
          # result.validated.sources[2].retrieved
    /\ result.validated.sponsors # <<>>
    /\ result.validated.votes # <<>>

=============================================================================
